---- MODULE Spec2Model ----
(***************************************************************************)
(* Plant-maintenance REST backend: the work-order-part / inventory ledger  *)
(* (src/src/routes/workOrderParts.routes.ts) and the maintenance-schedule  *)
(* recurrence (src/src/routes/maintenanceSchedule.routes.ts).              *)
(*                                                                         *)
(* Every route handler is an async function; each `await` on the ORM is a  *)
(* separate step, so the steps of concurrent requests interleave.  The     *)
(* handlers open no transaction and take no lock.                          *)
(***************************************************************************)
EXTENDS Integers, Sequences, FiniteSets, TLC

\* ---------------------------------------------------------------- bounds
\* Quantity every inventory item is created with.
InitQuantity == 2
\* Rows the work_order_parts table may hold (autoincrement never reuses ids).
MaxParts == 2
\* Rows the maintenance_schedules table may hold.
MaxSchedules == 1
\* Requests served in one run.
MaxRequests == 3

\* Request slots: two requests may be in flight at once.
Procs == {1, 2}
\* Inventory rows that exist, and an id no row has.
ItemIds == {1, 2}
MissingItemId == 0
\* Work orders that exist, and an id no row has.
WorkOrderIds == {1}
MissingWorkOrderId == 0
\* Machine rows that exist, and a non-zero id no row has.
MachineIds == {1}
MissingMachineId == 2
\* A null DATE column.
NullDate == -1

\* quantity_used values a request body may carry (0 is refused by the model).
QuantityInputs == 0..(InitQuantity + 1)
\* Part ids a request path may carry (rows or not).
PartIdInputs == 1..(MaxParts + 1)

VARIABLES
    inventory,   \* inventory table: item id -> quantity
    parts,       \* work_order_parts table: sequence of rows, index = primary key
    machines,    \* machines table: machine id -> row
    schedules,   \* maintenance_schedules table: sequence of rows, index = primary key
    pc,          \* per request slot: the await the handler is suspended at
    req,         \* per request slot: path and body parameters
    loc,         \* per request slot: the handler's in-memory model instances
    status,      \* per request slot: HTTP status sent (0 = none yet)
    served,      \* requests begun so far
    alone,       \* per request slot: no other request stepped since it began
    start,       \* per request slot: the tables when it began (while alone)
    store,       \* plants, machines, vendors, inventory, work_orders: rows by primary key
    users,       \* users table: sequence of rows, index = primary key
    res,         \* per request slot: the Express response object
    ran          \* per request slot: the route handler was entered

vars == <<inventory, parts, machines, schedules, served, pc, req, loc, status, alone, start,
          store, users, res, ran>>

NoRequest == [kind |-> "none"]
NoLocals == [quantity |-> 0, part_quantity_used |-> 0, part_inventory_id |-> 0]
NoStart == [inventory |-> <<>>, parts |-> <<>>, machines |-> <<>>, schedules |-> <<>>]
Tables == [inventory |-> inventory, parts |-> parts,
           machines |-> machines, schedules |-> schedules]
\* The tables of the part ledger, and those of the maintenance recurrence.
ledger == <<inventory, parts>>
maintenance == <<machines, schedules>>
\* The tables behind the role-gated CRUD routes and the auth routes, with the
\* responses of the requests on them.
api == <<store, users, res, ran>>

\* Resources served by routers that guard every route with authorize(roles).
ResourceKinds == {"plants", "machines", "vendors", "inventory", "work_orders"}
\* The tables kept in store: those resources', the calls and the labor records.
StoreKinds == ResourceKinds \cup {"calls", "work_order_labor"}
\* A response on which nothing has been sent.
NoResponse == [sends |-> 0, status |-> 0, body |-> {}, cookie |-> FALSE]

\* ------------------------------------------------------------ ORM helpers
\* WorkOrderPart.quantity_used: validate min 0.0001 (integers: at least 1).
PartQuantityValid(u) == u >= 1
\* Inventory.quantity: validate min 0.
InventoryQuantityValid(q) == q >= 0
\* WorkOrderPart.findByPk on a paranoid model: soft-deleted rows are not found.
PartFound(id) == id \in 1..Len(parts) /\ ~parts[id].deleted
\* Inventory.findByPk / WorkOrder.findByPk
InventoryFound(id) == id \in ItemIds
WorkOrderFound(id) == id \in WorkOrderIds

\* ------------------------------------------------------- request plumbing
\* A step of slot p: every other slot that has begun is no longer alone.
Interfered(p) ==
    /\ UNCHANGED served
    /\ alone' = [q \in Procs |-> IF q = p THEN alone[p]
                                  ELSE IF pc[q] = "idle" THEN alone[q] ELSE FALSE]
    /\ start' = [q \in Procs |-> IF q = p \/ pc[q] = "idle" THEN start[q] ELSE NoStart]

\* A step of a ledger or maintenance handler.
Interfere(p) == Interfered(p) /\ UNCHANGED api

\* The first step of a request in slot p.
Began(p) ==
    /\ served' = served + 1
    /\ alone' = [q \in Procs |-> IF q = p THEN \A r \in Procs \ {p} : pc[r] \in {"idle", "done"}
                                  ELSE IF pc[q] = "idle" THEN alone[q] ELSE FALSE]
    /\ start' = [q \in Procs |-> IF q = p
                                  THEN (IF \A r \in Procs \ {p} : pc[r] \in {"idle", "done"}
                                        THEN Tables ELSE NoStart)
                                  ELSE IF pc[q] = "idle" THEN start[q] ELSE NoStart]

\* The first step of a ledger or maintenance request.
Begin(p) == Began(p) /\ UNCHANGED api

\* res.status(s): the handler returns.
Respond(p, s) ==
    /\ pc' = [pc EXCEPT ![p] = "done"]
    /\ status' = [status EXCEPT ![p] = s]
    /\ loc' = [loc EXCEPT ![p] = NoLocals]

\* The handler goes on to its next await holding the instances l.
Goto(p, label, l) ==
    /\ pc' = [pc EXCEPT ![p] = label]
    /\ loc' = [loc EXCEPT ![p] = l]
    /\ UNCHANGED status

CanBegin(p) ==
    /\ served' = served + 1
    /\ pc[p] = "idle"
    /\ served < MaxRequests

Init ==
    /\ inventory = [i \in ItemIds |-> InitQuantity]
    /\ parts = <<>>
    /\ machines = [m \in MachineIds |-> [deleted |-> FALSE,
                                          last_maintenance_date |-> NullDate,
                                          next_maintenance_date |-> NullDate]]
    /\ schedules = <<>>
    /\ served = 0
    /\ pc = [p \in Procs |-> "idle"]
    /\ req = [p \in Procs |-> NoRequest]
    /\ loc = [p \in Procs |-> NoLocals]
    /\ status = [p \in Procs |-> 0]
    /\ alone = [p \in Procs |-> FALSE]
    /\ start = [p \in Procs |-> NoStart]
    /\ store = [k \in StoreKinds |-> <<>>]
    /\ users = <<>>
    /\ res = [p \in Procs |-> NoResponse]
    /\ ran = [p \in Procs |-> FALSE]

\* The response has been sent; the slot is free for the next request.
Finish(p) ==
    /\ pc[p] = "done"
    /\ pc' = [pc EXCEPT ![p] = "idle"]
    /\ req' = [req EXCEPT ![p] = NoRequest]
    /\ UNCHANGED loc
    /\ status' = [status EXCEPT ![p] = 0]
    /\ alone' = [alone EXCEPT ![p] = FALSE]
    /\ start' = [start EXCEPT ![p] = NoStart]
    /\ res' = [res EXCEPT ![p] = NoResponse]
    /\ ran' = [ran EXCEPT ![p] = FALSE]
    /\ UNCHANGED <<inventory, parts, machines, schedules, served, store, users>>

\* ------------------------------------- POST /work-orders/:workOrderId/parts
\* WorkOrder.findByPk(workOrderId)
CreatePartFindWorkOrder(p) ==
    /\ CanBegin(p)
    /\ Len(parts) < MaxParts
    /\ \E w \in WorkOrderIds \cup {MissingWorkOrderId},
          i \in ItemIds \cup {MissingItemId},
          u \in QuantityInputs :
        /\ req' = [req EXCEPT ![p] = [kind |-> "create", work_order_id |-> w,
                                      inventory_id |-> i, quantity_used |-> u]]
        /\ IF WorkOrderFound(w) THEN Goto(p, "create_findInventory", NoLocals)
                                ELSE Respond(p, 404)
    /\ Begin(p)
    /\ UNCHANGED <<maintenance, inventory, parts>>

\* Mutant: the stock check is missing.
CreatePartFindInventoryNoStockCheck(p) ==
    /\ pc[p] = "create_findInventory"
    /\ IF ~InventoryFound(req[p].inventory_id)
       THEN Respond(p, 404)
       ELSE Goto(p, "create_insertPart",
                 [loc[p] EXCEPT !.quantity = inventory[req[p].inventory_id]])
    /\ Interfere(p)
    /\ UNCHANGED <<maintenance, inventory, parts, req>>

\* Inventory.findByPk(inventory_id), then the stock check
CreatePartFindInventory(p) ==
    /\ pc[p] = "create_findInventory"
    /\ IF ~InventoryFound(req[p].inventory_id)
       THEN Respond(p, 404)
       ELSE IF inventory[req[p].inventory_id] < req[p].quantity_used
       THEN Respond(p, 400)
       ELSE Goto(p, "create_insertPart",
                 [loc[p] EXCEPT !.quantity = inventory[req[p].inventory_id]])
    /\ Interfere(p)
    /\ UNCHANGED <<maintenance, inventory, parts, req>>

\* WorkOrderPart.create({work_order_id, inventory_id, quantity_used})
CreatePartInsert(p) ==
    /\ pc[p] = "create_insertPart"
    /\ IF PartQuantityValid(req[p].quantity_used)
       THEN /\ parts' = Append(parts, [work_order_id |-> req[p].work_order_id,
                                        inventory_id |-> req[p].inventory_id,
                                        quantity_used |-> req[p].quantity_used,
                                        deleted |-> FALSE])
            /\ Goto(p, "create_updateInventory", loc[p])
       ELSE Respond(p, 500) /\ UNCHANGED parts
    /\ Interfere(p)
    /\ UNCHANGED <<maintenance, inventory, req>>

\* Mutant: the stock is decremented in place (UPDATE ... SET quantity = quantity - u),
\* which bypasses the model's validators and the in-memory value that was checked.
CreatePartUpdateInventoryInPlace(p) ==
    /\ pc[p] = "create_updateInventory"
    /\ inventory' = [inventory EXCEPT ![req[p].inventory_id] = @ - req[p].quantity_used]
    /\ Respond(p, 201)
    /\ Interfere(p)
    /\ UNCHANGED <<maintenance, parts, req>>

\* Mutant: the sign of the adjustment is flipped.
CreatePartUpdateInventoryAdds(p) ==
    /\ pc[p] = "create_updateInventory"
    /\ inventory' = [inventory EXCEPT ![req[p].inventory_id] =
                                          loc[p].quantity + req[p].quantity_used]
    /\ Respond(p, 201)
    /\ Interfere(p)
    /\ UNCHANGED <<maintenance, parts, req>>

\* inventoryItem.update({quantity: inventoryItem.quantity - quantity_used})
CreatePartUpdateInventory(p) ==
    /\ pc[p] = "create_updateInventory"
    /\ LET q == loc[p].quantity - req[p].quantity_used IN
       IF InventoryQuantityValid(q)
       THEN /\ inventory' = [inventory EXCEPT ![req[p].inventory_id] = q]
            /\ Respond(p, 201)
       ELSE Respond(p, 500) /\ UNCHANGED inventory
    /\ Interfere(p)
    /\ UNCHANGED <<maintenance, parts, req>>

\* ------------------------------------------------ PUT /work-order-parts/:id
\* WorkOrderPart.findByPk(partId, {include: [Inventory]})
UpdatePartFindPart(p) ==
    /\ CanBegin(p)
    /\ \E id \in PartIdInputs, u \in QuantityInputs :
        /\ req' = [req EXCEPT ![p] = [kind |-> "update", part_id |-> id,
                                      quantity_used |-> u]]
        /\ IF PartFound(id)
           THEN Goto(p, "update_findInventory",
                     [NoLocals EXCEPT !.part_quantity_used = parts[id].quantity_used,
                                      !.part_inventory_id = parts[id].inventory_id])
           ELSE Respond(p, 404)
    /\ Begin(p)
    /\ UNCHANGED <<maintenance, inventory, parts>>

\* Mutant: the difference is taken the wrong way round.
QuantityDifferenceReversed(p) == loc[p].part_quantity_used - req[p].quantity_used

\* quantity_used - workOrderPart.quantity_used
QuantityDifference(p) == req[p].quantity_used - loc[p].part_quantity_used

\* Inventory.findByPk(workOrderPart.inventory_id), then the stock check
UpdatePartFindInventory(p) ==
    /\ pc[p] = "update_findInventory"
    /\ IF ~InventoryFound(loc[p].part_inventory_id)
       THEN Respond(p, 404)
       ELSE IF QuantityDifference(p) > 0
               /\ inventory[loc[p].part_inventory_id] < QuantityDifference(p)
       THEN Respond(p, 400)
       ELSE Goto(p, "update_updateInventory",
                 [loc[p] EXCEPT !.quantity = inventory[loc[p].part_inventory_id]])
    /\ Interfere(p)
    /\ UNCHANGED <<maintenance, inventory, parts, req>>

\* inventoryItem.update({quantity: inventoryItem.quantity - quantityDifference})
\* (the ORM issues no UPDATE when the attribute keeps its in-memory value)
UpdatePartUpdateInventory(p) ==
    /\ pc[p] = "update_updateInventory"
    /\ LET q == loc[p].quantity - QuantityDifference(p) IN
       IF InventoryQuantityValid(q)
       THEN /\ inventory' = IF q = loc[p].quantity THEN inventory
                            ELSE [inventory EXCEPT ![loc[p].part_inventory_id] = q]
            /\ Goto(p, "update_updatePart", loc[p])
       ELSE Respond(p, 500) /\ UNCHANGED inventory
    /\ Interfere(p)
    /\ UNCHANGED <<maintenance, parts, req>>

\* workOrderPart.update({quantity_used}): validated, then written by primary key
UpdatePartUpdatePart(p) ==
    /\ pc[p] = "update_updatePart"
    /\ IF PartQuantityValid(req[p].quantity_used)
       THEN /\ parts' = IF req[p].quantity_used = loc[p].part_quantity_used THEN parts
                        ELSE [parts EXCEPT ![req[p].part_id].quantity_used =
                                               req[p].quantity_used]
            /\ Respond(p, 200)
       ELSE Respond(p, 500) /\ UNCHANGED parts
    /\ Interfere(p)
    /\ UNCHANGED <<maintenance, inventory, req>>

\* --------------------------------------------- DELETE /work-order-parts/:id
\* WorkOrderPart.findByPk(partId)
DeletePartFindPart(p) ==
    /\ CanBegin(p)
    /\ \E id \in PartIdInputs :
        /\ req' = [req EXCEPT ![p] = [kind |-> "delete", part_id |-> id]]
        /\ IF PartFound(id)
           THEN Goto(p, "delete_findInventory",
                     [NoLocals EXCEPT !.part_quantity_used = parts[id].quantity_used,
                                      !.part_inventory_id = parts[id].inventory_id])
           ELSE Respond(p, 404)
    /\ Begin(p)
    /\ UNCHANGED <<maintenance, inventory, parts>>

\* Inventory.findByPk(workOrderPart.inventory_id)
DeletePartFindInventory(p) ==
    /\ pc[p] = "delete_findInventory"
    /\ IF ~InventoryFound(loc[p].part_inventory_id)
       THEN Respond(p, 404)
       ELSE Goto(p, "delete_updateInventory",
                 [loc[p] EXCEPT !.quantity = inventory[loc[p].part_inventory_id]])
    /\ Interfere(p)
    /\ UNCHANGED <<maintenance, inventory, parts, req>>

\* Mutant: the consumed quantity is not given back.
DeletePartUpdateInventoryNoRestore(p) ==
    /\ pc[p] = "delete_updateInventory"
    /\ Goto(p, "delete_destroyPart", loc[p])
    /\ Interfere(p)
    /\ UNCHANGED <<maintenance, inventory, parts, req>>

\* inventoryItem.update({quantity: inventoryItem.quantity + workOrderPart.quantity_used})
DeletePartUpdateInventory(p) ==
    /\ pc[p] = "delete_updateInventory"
    /\ LET q == loc[p].quantity + loc[p].part_quantity_used IN
       IF InventoryQuantityValid(q)
       THEN /\ inventory' = [inventory EXCEPT ![loc[p].part_inventory_id] = q]
            /\ Goto(p, "delete_destroyPart", loc[p])
       ELSE Respond(p, 500) /\ UNCHANGED inventory
    /\ Interfere(p)
    /\ UNCHANGED <<maintenance, parts, req>>

\* workOrderPart.destroy(): paranoid, sets deleted_at
DeletePartDestroy(p) ==
    /\ pc[p] = "delete_destroyPart"
    /\ parts' = [parts EXCEPT ![req[p].part_id].deleted = TRUE]
    /\ Respond(p, 204)
    /\ Interfere(p)
    /\ UNCHANGED <<maintenance, inventory, req>>

Next ==
    \E p \in Procs :
        \/ CreatePartFindWorkOrder(p)
        \/ CreatePartFindInventory(p)
        \/ CreatePartInsert(p)
        \/ CreatePartUpdateInventory(p)
        \/ UpdatePartFindPart(p)
        \/ UpdatePartFindInventory(p)
        \/ UpdatePartUpdateInventory(p)
        \/ UpdatePartUpdatePart(p)
        \/ DeletePartFindPart(p)
        \/ DeletePartFindInventory(p)
        \/ DeletePartUpdateInventory(p)
        \/ DeletePartDestroy(p)
        \/ Finish(p)

Spec == Init /\ [][Next]_vars

\* POST /work-orders/:workOrderId/parts alone
NextCreates ==
    \E p \in Procs :
        \/ CreatePartFindWorkOrder(p)
        \/ CreatePartFindInventory(p)
        \/ CreatePartInsert(p)
        \/ CreatePartUpdateInventory(p)
        \/ Finish(p)

SpecCreates == Init /\ [][NextCreates]_vars

\* ------------------------------------------------------------ JS Date
\* A Date is the number of its calendar day, day 1 being 1 January EpochYear.
EpochYear == 2024
Years == EpochYear..(EpochYear + 3)

IsLeapYear(y) == (y % 4 = 0 /\ y % 100 # 0) \/ y % 400 = 0
DaysInYear(y) == IF IsLeapYear(y) THEN 366 ELSE 365
DaysInMonth(y, m) ==
    IF m = 2 THEN (IF IsLeapYear(y) THEN 29 ELSE 28)
    ELSE IF m \in {4, 6, 9, 11} THEN 30 ELSE 31

RECURSIVE DaysBeforeYear(_)
DaysBeforeYear(y) == IF y <= EpochYear THEN 0 ELSE DaysBeforeYear(y - 1) + DaysInYear(y - 1)

RECURSIVE DaysBeforeMonth(_, _)
DaysBeforeMonth(y, m) == IF m <= 1 THEN 0 ELSE DaysBeforeMonth(y, m - 1) + DaysInMonth(y, m - 1)

\* MakeDay(year, month, date): date may run past the end of the month.
MakeDay(y, m, d) == DaysBeforeYear(y) + DaysBeforeMonth(y, m) + d

\* YearFromTime, MonthFromTime, DateFromTime
YearFromTime(t) == CHOOSE y \in Years : DaysBeforeYear(y) < t /\ t <= DaysBeforeYear(y + 1)
MonthFromTime(t) ==
    CHOOSE m \in 1..12 :
        LET t0 == DaysBeforeYear(YearFromTime(t)) + DaysBeforeMonth(YearFromTime(t), m)
        IN  t0 < t /\ t <= t0 + DaysInMonth(YearFromTime(t), m)
GetDate(t) == t - MakeDay(YearFromTime(t), MonthFromTime(t), 1) + 1

\* Date.prototype.setDate(date)
SetDate(t, date) == MakeDay(YearFromTime(t), MonthFromTime(t), date)

\* Mutant: the day of the month is replaced by the frequency, not advanced by it.
NextDueDateFromMonthStart(completionDate, frequency_days) ==
    SetDate(completionDate, frequency_days)

\* nextDueDate = new Date(completionDate);
\* nextDueDate.setDate(nextDueDate.getDate() + schedule.frequency_days)
NextDueDate(completionDate, frequency_days) ==
    SetDate(completionDate, GetDate(completionDate) + frequency_days)

\* ------------------------------------------------- maintenance schedules
\* Request bodies.  A field that is absent (or falsy) is 0, which is no Date; a
\* date string that does not parse is NullDate.
AbsentField == 0
FrequencyInputs == {7, 30}
CompletionDateInputs == {NullDate, AbsentField, MakeDay(2025, 1, 1), MakeDay(2024, 2, 15)}
\* new Date(): the clock when completion_date is absent
Today == MakeDay(2025, 12, 20)
ScheduleIdInputs == 1..(MaxSchedules + 1)

\* MaintenanceSchedule.findByPk / Machine.findByPk on paranoid models
ScheduleFound(id) == id \in 1..Len(schedules) /\ ~schedules[id].deleted
MachineFound(id) == id \in MachineIds /\ ~machines[id].deleted

\* Mutant: machine_id is validated only when the body carries it.
ValidateScheduleInputOptionalMachine(body) ==
    (IF body.name_length < 3 THEN {"name"} ELSE {})
    \cup (IF body.description_length = 0 THEN {"description"} ELSE {})
    \cup (IF body.frequency_days = AbsentField \/ body.frequency_days <= 0
          THEN {"frequency_days"} ELSE {})
    \cup (IF body.next_due = AbsentField \/ body.next_due = NullDate
          THEN {"next_due"} ELSE {})

\* validateScheduleInput(body).errors
ValidateScheduleInput(body) ==
    (IF body.machine_id = AbsentField THEN {"machine_id"} ELSE {})
    \cup (IF body.name_length < 3 THEN {"name"} ELSE {})
    \cup (IF body.description_length = 0 THEN {"description"} ELSE {})
    \cup (IF body.frequency_days = AbsentField \/ body.frequency_days <= 0
          THEN {"frequency_days"} ELSE {})
    \cup (IF body.next_due = AbsentField \/ body.next_due = NullDate
          THEN {"next_due"} ELSE {})

\* A well-formed body, and the bodies that differ from one in a single field.
WellFormedScheduleBody(f) ==
    [machine_id |-> 1, name_length |-> 3, description_length |-> 8,
     frequency_days |-> f, next_due |-> MakeDay(2025, 1, 15)]
ScheduleBodies ==
    {WellFormedScheduleBody(f) : f \in FrequencyInputs}
    \cup {[WellFormedScheduleBody(30) EXCEPT !.machine_id = m] :
              m \in {AbsentField, MissingMachineId}}
    \cup {[WellFormedScheduleBody(30) EXCEPT !.name_length = 2],
          [WellFormedScheduleBody(30) EXCEPT !.description_length = 0],
          [WellFormedScheduleBody(30) EXCEPT !.frequency_days = 0],
          [WellFormedScheduleBody(30) EXCEPT !.next_due = NullDate]}

\* POST /maintenance-schedules: validation and Machine.findByPk, then
\* MaintenanceSchedule.create
ScheduleCreate(p) ==
    /\ IF pc[p] = "idle"
       THEN /\ CanBegin(p)
            /\ Len(schedules) < MaxSchedules
            /\ \E body \in ScheduleBodies :
                /\ req' = [req EXCEPT ![p] = [kind |-> "schedule_create", body |-> body]]
                /\ IF ValidateScheduleInput(body) # {} THEN Respond(p, 400)
                   ELSE IF ~MachineFound(body.machine_id) THEN Respond(p, 404)
                   ELSE Goto(p, "schedule_create_insert", NoLocals)
            /\ Begin(p)
            /\ UNCHANGED schedules
       ELSE /\ pc[p] = "schedule_create_insert"
            /\ schedules' = Append(schedules,
                                   [machine_id |-> req[p].body.machine_id,
                                    frequency_days |-> req[p].body.frequency_days,
                                    last_completed |-> NullDate,
                                    next_due |-> req[p].body.next_due,
                                    deleted |-> FALSE])
            /\ Respond(p, 201)
            /\ Interfere(p)
            /\ UNCHANGED req
    /\ UNCHANGED <<ledger, machines>>

\* PUT /maintenance-schedules/:id: validation of {name, description,
\* frequency_days, next_due} and MaintenanceSchedule.findByPk, then schedule.update
ScheduleUpdate(p) ==
    /\ IF pc[p] = "idle"
       THEN /\ CanBegin(p)
            /\ \E id \in ScheduleIdInputs, body \in ScheduleBodies,
                  lc \in {AbsentField, MakeDay(2025, 1, 1)} :
                /\ req' = [req EXCEPT ![p] = [kind |-> "schedule_update", schedule_id |-> id,
                                              body |-> body, last_completed |-> lc]]
                /\ IF ValidateScheduleInput([body EXCEPT !.machine_id = AbsentField]) # {}
                   THEN Respond(p, 400)
                   ELSE IF ~ScheduleFound(id) THEN Respond(p, 404)
                   ELSE Goto(p, "schedule_update_write",
                             [last_completed |-> schedules[id].last_completed])
            /\ Begin(p)
            /\ UNCHANGED schedules
       ELSE /\ pc[p] = "schedule_update_write"
            /\ schedules' = [schedules EXCEPT ![req[p].schedule_id] =
                   [@ EXCEPT !.frequency_days = req[p].body.frequency_days,
                             !.next_due = req[p].body.next_due,
                             !.last_completed =
                                 IF req[p].last_completed # AbsentField
                                 THEN req[p].last_completed
                                 ELSE loc[p].last_completed]]
            /\ Respond(p, 200)
            /\ Interfere(p)
            /\ UNCHANGED req
    /\ UNCHANGED <<ledger, machines>>

\* DELETE /maintenance-schedules/:id: MaintenanceSchedule.findByPk
ScheduleDeleteFind(p) ==
    /\ CanBegin(p)
    /\ \E id \in ScheduleIdInputs :
        /\ req' = [req EXCEPT ![p] = [kind |-> "schedule_delete", schedule_id |-> id]]
        /\ IF ScheduleFound(id) THEN Goto(p, "schedule_delete_destroy", NoLocals)
                                ELSE Respond(p, 404)
    /\ Begin(p)
    /\ UNCHANGED <<ledger, maintenance>>

\* schedule.destroy(): paranoid, sets deleted_at
ScheduleDeleteDestroy(p) ==
    /\ pc[p] = "schedule_delete_destroy"
    /\ schedules' = [schedules EXCEPT ![req[p].schedule_id].deleted = TRUE]
    /\ Respond(p, 204)
    /\ Interfere(p)
    /\ UNCHANGED <<ledger, machines, req>>

\* DELETE /machines/:id: Machine.findByPk
MachineDeleteFind(p) ==
    /\ CanBegin(p)
    /\ \E id \in MachineIds \cup {MissingMachineId} :
        /\ req' = [req EXCEPT ![p] = [kind |-> "machine_delete", machine_id |-> id]]
        /\ IF MachineFound(id) THEN Goto(p, "machine_delete_destroy", NoLocals)
                               ELSE Respond(p, 404)
    /\ Begin(p)
    /\ UNCHANGED <<ledger, maintenance>>

\* machine.destroy(): soft delete
MachineDeleteDestroy(p) ==
    /\ pc[p] = "machine_delete_destroy"
    /\ machines' = [machines EXCEPT ![req[p].machine_id].deleted = TRUE]
    /\ Respond(p, 204)
    /\ Interfere(p)
    /\ UNCHANGED <<ledger, schedules, req>>

\* POST /maintenance-schedules/:id/complete: the date check,
\* MaintenanceSchedule.findByPk and the next due date
CompleteFindSchedule(p) ==
    /\ CanBegin(p)
    /\ \E id \in ScheduleIdInputs, d \in CompletionDateInputs :
        /\ req' = [req EXCEPT ![p] = [kind |-> "complete", schedule_id |-> id,
                                      completion_date |-> d]]
        /\ IF d = NullDate THEN Respond(p, 400)
           ELSE IF ~ScheduleFound(id) THEN Respond(p, 404)
           ELSE LET completionDate == IF d = AbsentField THEN Today ELSE d IN
                Goto(p, "complete_updateSchedule",
                     [machine_id |-> schedules[id].machine_id,
                      completionDate |-> completionDate,
                      nextDueDate |-> NextDueDate(completionDate,
                                                  schedules[id].frequency_days)])
    /\ Begin(p)
    /\ UNCHANGED <<ledger, maintenance>>

\* schedule.update({last_completed: completionDate, next_due: nextDueDate})
CompleteUpdateSchedule(p) ==
    /\ pc[p] = "complete_updateSchedule"
    /\ schedules' = [schedules EXCEPT ![req[p].schedule_id] =
                        [@ EXCEPT !.last_completed = loc[p].completionDate,
                                  !.next_due = loc[p].nextDueDate]]
    /\ Goto(p, "complete_findMachine", loc[p])
    /\ Interfere(p)
    /\ UNCHANGED <<ledger, machines, req>>

\* Machine.findByPk(schedule.machine_id)
CompleteFindMachine(p) ==
    /\ pc[p] = "complete_findMachine"
    /\ IF MachineFound(loc[p].machine_id)
       THEN Goto(p, "complete_updateMachine", loc[p])
       ELSE Respond(p, 404)
    /\ Interfere(p)
    /\ UNCHANGED <<ledger, maintenance, req>>

\* machine.update({last_maintenance_date: completionDate,
\*                 next_maintenance_date: nextDueDate})
CompleteUpdateMachine(p) ==
    /\ pc[p] = "complete_updateMachine"
    /\ machines' = [machines EXCEPT ![loc[p].machine_id] =
                       [@ EXCEPT !.last_maintenance_date = loc[p].completionDate,
                                 !.next_maintenance_date = loc[p].nextDueDate]]
    /\ Respond(p, 200)
    /\ Interfere(p)
    /\ UNCHANGED <<ledger, schedules, req>>

NextMaintenance ==
    \E p \in Procs :
        \/ ScheduleCreate(p)
        \/ ScheduleUpdate(p)
        \/ ScheduleDeleteFind(p)
        \/ ScheduleDeleteDestroy(p)
        \/ MachineDeleteFind(p)
        \/ MachineDeleteDestroy(p)
        \/ CompleteFindSchedule(p)
        \/ CompleteUpdateSchedule(p)
        \/ CompleteFindMachine(p)
        \/ CompleteUpdateMachine(p)
        \/ Finish(p)

SpecMaintenance == Init /\ [][NextMaintenance]_vars

\* ------------------------------------------------------------------ ledger
Quiescent == \A p \in Procs : pc[p] \in {"idle", "done"}

RECURSIVE SumUsed(_, _, _)
\* quantity_used summed over the first n rows of ps that are on item i and
\* (when activeOnly) not soft-deleted
SumUsed(ps, n, sel) ==
    IF n = 0 THEN 0
    ELSE SumUsed(ps, n - 1, sel)
         + (IF ps[n].inventory_id = sel.item /\ (sel.activeOnly => ~ps[n].deleted)
            THEN ps[n].quantity_used ELSE 0)

ActiveUsed(i) == SumUsed(parts, Len(parts), [item |-> i, activeOnly |-> TRUE])
CreatedUsed(i) == SumUsed(parts, Len(parts), [item |-> i, activeOnly |-> FALSE])

\* A request in slot p of the given kind has been answered, and no step of
\* another request fell between its first step and now.
AnsweredAlone(p, kind) == pc[p] = "done" /\ req[p].kind = kind /\ alone[p]

\* C1: every inventory item's stored quantity is >= 0 in every reachable state,
\* whatever the interleaving of part create, update and delete requests.
QuantityNeverNegative == \A i \in ItemIds : inventory[i] >= 0

\* C1 witness: an item was drained to 0 by requests whose steps interleaved.
QuantityNeverNegativeWitness ==
    \E i \in ItemIds, p \in Procs :
        /\ inventory[i] = 0
        /\ pc[p] = "done" /\ status[p] = 201 /\ ~alone[p]
        /\ req[p].inventory_id = i

\* C2 (as claimed): with part creations only, the parts created on an item never
\* use more than the item's initial quantity in total.
NoJointOverdraft ==
    Quiescent => \A i \in ItemIds : CreatedUsed(i) <= InitQuantity

\* C3: a successful creation run in isolation takes quantity_used off the item
\* and adds exactly one part row with that quantity for the work order and item.
CreateInIsolation ==
    \A p \in Procs :
        AnsweredAlone(p, "create") /\ status[p] = 201 =>
            /\ start[p].inventory[req[p].inventory_id] >= req[p].quantity_used
            /\ inventory = [start[p].inventory EXCEPT
                               ![req[p].inventory_id] = @ - req[p].quantity_used]
            /\ parts = Append(start[p].parts,
                              [work_order_id |-> req[p].work_order_id,
                               inventory_id |-> req[p].inventory_id,
                               quantity_used |-> req[p].quantity_used,
                               deleted |-> FALSE])

\* C3 witness: a creation alone took an item's whole stock.
CreateInIsolationWitness ==
    \E p \in Procs :
        /\ AnsweredAlone(p, "create") /\ status[p] = 201
        /\ req[p].quantity_used = InitQuantity
        /\ inventory[req[p].inventory_id] = 0

\* C4: a creation rejected for a missing work order, a missing item or too little
\* stock changes no table; and on an item whose stock is 0 a creation of a
\* positive quantity is rejected with 400 (insufficient stock).
RejectedCreateChangesNothing ==
    \A p \in Procs :
        AnsweredAlone(p, "create") =>
            /\ status[p] \in {400, 404} => Tables = start[p]
            /\ ~WorkOrderFound(req[p].work_order_id) => status[p] = 404
            /\ ~InventoryFound(req[p].inventory_id) => status[p] = 404
            /\ ( /\ WorkOrderFound(req[p].work_order_id)
                 /\ InventoryFound(req[p].inventory_id)
                 /\ req[p].quantity_used > start[p].inventory[req[p].inventory_id] )
               => status[p] = 400

\* C4 witness: an item was consumed whole by one part, and a further creation of
\* 1 on it has been answered 400.
RejectedCreateWitness ==
    \E p \in Procs, k \in 1..Len(parts) :
        /\ AnsweredAlone(p, "create") /\ status[p] = 400
        /\ req[p].quantity_used = 1
        /\ start[p].inventory[req[p].inventory_id] = 0
        /\ parts[k].inventory_id = req[p].inventory_id
        /\ parts[k].quantity_used = InitQuantity /\ ~parts[k].deleted

DeleteInIsolation ==
    \A p \in Procs :
        ( /\ AnsweredAlone(p, "delete")
          /\ req[p].part_id \in 1..Len(start[p].parts)
          /\ ~start[p].parts[req[p].part_id].deleted ) =>
            LET u == start[p].parts[req[p].part_id].quantity_used
                i == start[p].parts[req[p].part_id].inventory_id
            IN  /\ status[p] = 204
                /\ inventory = [start[p].inventory EXCEPT ![i] = @ + u]
                /\ parts = [start[p].parts EXCEPT ![req[p].part_id].deleted = TRUE]
                /\ ~PartFound(req[p].part_id)

\* C6 witness: a deletion alone has been answered 204.
DeleteInIsolationWitness ==
    \E p \in Procs : AnsweredAlone(p, "delete") /\ status[p] = 204

\* C7 (as claimed): whenever no part request is in flight, each item's quantity
\* plus the quantity_used of its active parts equals its initial quantity.
LedgerConservation ==
    Quiescent => \A i \in ItemIds : inventory[i] + ActiveUsed(i) = InitQuantity

\* ------------------------------------------------------------- maintenance
\* C8: a successful completion run in isolation, with completion date D on a
\* schedule of frequency F, leaves the schedule with last_completed = D and
\* next_due = D + F days and its machine with the same two dates; F = 30 and
\* D = 2025-01-01 give 2025-01-31 on both.
CompletionSetsDates ==
    \A p \in Procs :
        AnsweredAlone(p, "complete") /\ status[p] = 200 =>
            LET s == req[p].schedule_id
                D == IF req[p].completion_date = AbsentField THEN Today
                     ELSE req[p].completion_date
                F == start[p].schedules[s].frequency_days
                m == start[p].schedules[s].machine_id
            IN  /\ schedules[s].last_completed = D
                /\ schedules[s].next_due = D + F
                /\ machines[m].last_maintenance_date = D
                /\ machines[m].next_maintenance_date = D + F
                /\ (D = MakeDay(2025, 1, 1) /\ F = 30) =>
                       /\ schedules[s].next_due = MakeDay(2025, 1, 31)
                       /\ machines[m].next_maintenance_date = MakeDay(2025, 1, 31)
                       /\ YearFromTime(schedules[s].next_due) = 2025
                       /\ MonthFromTime(schedules[s].next_due) = 1
                       /\ GetDate(schedules[s].next_due) = 31

\* C8 witness: the completion of 2025-01-01 on a 30-day schedule was answered 200.
CompletionSetsDatesWitness ==
    \E p \in Procs :
        /\ AnsweredAlone(p, "complete") /\ status[p] = 200
        /\ req[p].completion_date = MakeDay(2025, 1, 1)
        /\ schedules[req[p].schedule_id].frequency_days = 30

\* C9 (as claimed): an answered completion has updated both the schedule and its
\* machine (200), or neither.
CompletionNeverPartial ==
    \A p \in Procs :
        AnsweredAlone(p, "complete") =>
            \/ status[p] = 200
            \/ Tables = start[p]

ConcurrentCompletionsConsistent ==
    \A p, q \in Procs :
        ( /\ p # q
          /\ pc[p] = "done" /\ req[p].kind = "complete" /\ status[p] = 200
          /\ pc[q] = "done" /\ req[q].kind = "complete" /\ status[q] = 200
          /\ req[p].schedule_id = req[q].schedule_id
          /\ req[p].completion_date # req[q].completion_date ) =>
            LET s == schedules[req[p].schedule_id]
                m == machines[s.machine_id]
            IN  /\ m.last_maintenance_date = s.last_completed
                /\ m.next_maintenance_date = s.next_due

\* ------------------------------------------------------- authorize(roles)
Roles == {"admin", "manager", "technician"}
\* A request carries a token in the jwt cookie, in the Authorization: Bearer
\* header, or nowhere.  A token is absent, one that jwt.verify rejects, or a
\* valid one, written as the role in its payload.
NoToken == "none"
InvalidToken == "invalid"
CredentialInputs ==
    {[cookie |-> NoToken, bearer |-> NoToken],
     [cookie |-> NoToken, bearer |-> "admin"],
     [cookie |-> InvalidToken, bearer |-> NoToken]}
    \cup {[cookie |-> r, bearer |-> NoToken] : r \in Roles}

\* jwt.verify(token, secret) returns the payload (does not throw)
JwtVerify(token) == token \in Roles

\* Mutant: the 401 branches fall through to next() as the 403 branch does.
AuthorizeFallsThrough(credentials, roles) ==
    IF credentials.cookie = NoToken \/ ~JwtVerify(credentials.cookie)
    THEN [status |-> 401, next |-> TRUE]
    ELSE IF credentials.cookie \notin roles THEN [status |-> 403, next |-> TRUE]
    ELSE [status |-> 0, next |-> TRUE]

\* authorize(roles): the status it sends (0 = none) and whether it calls next().
\* The token is read from req.cookies.jwt only; the 403 branch has no return.
Authorize(credentials, roles) ==
    IF credentials.cookie = NoToken THEN [status |-> 401, next |-> FALSE]
    ELSE IF ~JwtVerify(credentials.cookie) THEN [status |-> 401, next |-> FALSE]
    ELSE IF credentials.cookie \notin roles THEN [status |-> 403, next |-> TRUE]
    ELSE [status |-> 0, next |-> TRUE]

\* The allow-list each router passes to authorize.
AllowedRoles(k, method) ==
    IF method = "GET" THEN (IF k = "plants" THEN {"admin", "manager"} ELSE Roles)
    ELSE IF method = "DELETE" THEN {"admin"}
    ELSE IF k \in {"inventory", "work_orders"} THEN {"admin", "manager"}
    ELSE {"admin"}

\* res.status(s).json(body) on the response r: the first call sends; a later one
\* throws ERR_HTTP_HEADERS_SENT and sends nothing.
ResJson(r, s, body) ==
    IF r.sends = 0 THEN [r EXCEPT !.sends = 1, !.status = s, !.body = body]
    ELSE [r EXCEPT !.sends = @ + 1]

\* A handler's exit through res.status(s).json(body): when that throws, the
\* handler's catch calls res.status(500).json, which throws in turn.
HandlerExit(r, s, body) ==
    IF r.sends = 0 THEN ResJson(r, s, body)
    ELSE ResJson(ResJson(r, s, body), 500, {})

\* The response after authorize ran with outcome a.
AfterAuthorize(a) ==
    IF a.status # 0 THEN ResJson(NoResponse, a.status, {}) ELSE NoResponse

\* The request in slot p is over with the response r.
Over(p, r) ==
    /\ pc' = [pc EXCEPT ![p] = "done"]
    /\ loc' = [loc EXCEPT ![p] = NoLocals]
    /\ res' = [res EXCEPT ![p] = r]
    /\ status' = [status EXCEPT ![p] = r.status]

\* The handler in slot p waits at its next await, the response being r.
Await(p, r, label) ==
    /\ pc' = [pc EXCEPT ![p] = label]
    /\ loc' = [loc EXCEPT ![p] = NoLocals]
    /\ res' = [res EXCEPT ![p] = r]
    /\ status' = [status EXCEPT ![p] = r.status]

\* ------------------------------------------------------ role-gated CRUD
\* Ids a request path may carry.
RowIdInputs == {1, 2}

\* Mutant: findAll with paranoid: false.
FindAllParanoidFalse(k) == 1..Len(store[k])

\* Model.findAll() on a paranoid model: the rows whose deleted_at is null.
FindAll(k) == {i \in 1..Len(store[k]) : ~store[k][i].deleted}
\* Model.findByPk(id) on a paranoid model
FindByPk(k, id) == id \in 1..Len(store[k]) /\ ~store[k][id].deleted

\* workOrderValidationSchema: status
JoiStatusValues == {"pending", "in-progress", "completed"}
\* WorkOrder.init: status ENUM
WorkOrderStatusEnum == {"pending", "in_progress", "completed", "cancelled"}

\* Request bodies: the length of the required name (title, for a work order)
\* and, for a work order, the status.
BodyInputs(k) ==
    IF k = "work_orders"
    THEN {[title_length |-> 5, status |-> s] : s \in JoiStatusValues \cup WorkOrderStatusEnum}
         \cup {[title_length |-> 0, status |-> "pending"]}
    ELSE {[name_length |-> 5], [name_length |-> 0]}

\* schema.validate(req.body).error is undefined
ValidateBody(k, body) ==
    IF k = "work_orders"
    THEN body.title_length \in 1..100 /\ body.status \in JoiStatusValues
    ELSE body.name_length \in 1..100

\* The INSERT / UPDATE is accepted by the column types (the status ENUM).
ColumnsAccept(k, body) == k = "work_orders" => body.status \in WorkOrderStatusEnum

NewRow(k, body) ==
    IF k = "work_orders" THEN [status |-> body.status, deleted |-> FALSE]
    ELSE [deleted |-> FALSE]

\* GET /<resource>: authorize, Model.findAll, res.json
ResourceList(p, k, c) ==
    /\ CanBegin(p)
    /\ req' = [req EXCEPT ![p] = [kind |-> "list", resource |-> k, credentials |-> c]]
    /\ LET a == Authorize(c, AllowedRoles(k, "GET"))
           r == AfterAuthorize(a)
       IN  /\ ran' = [ran EXCEPT ![p] = a.next]
           /\ IF a.next THEN Over(p, HandlerExit(r, 200, FindAll(k))) ELSE Over(p, r)
    /\ Began(p)
    /\ UNCHANGED <<ledger, maintenance, store, users>>

\* POST /<resource>: authorize, schema.validate, Model.create
ResourceCreate(p, k, c) ==
    /\ CanBegin(p)
    /\ \E body \in BodyInputs(k) :
        /\ req' = [req EXCEPT ![p] = [kind |-> "create", resource |-> k,
                                      credentials |-> c, body |-> body]]
        /\ LET a == Authorize(c, AllowedRoles(k, "POST"))
               r == AfterAuthorize(a)
           IN  /\ ran' = [ran EXCEPT ![p] = a.next]
               /\ IF ~a.next THEN Over(p, r) /\ UNCHANGED store
                  ELSE IF ~ValidateBody(k, body)
                  THEN Over(p, HandlerExit(r, 400, {})) /\ UNCHANGED store
                  ELSE IF ~ColumnsAccept(k, body)
                  THEN Over(p, HandlerExit(r, 500, {})) /\ UNCHANGED store
                  ELSE /\ store' = [store EXCEPT ![k] = Append(@, NewRow(k, body))]
                       /\ Over(p, HandlerExit(r, 201, {Len(store[k]) + 1}))
    /\ Began(p)
    /\ UNCHANGED <<ledger, maintenance, users>>

\* PUT /work-orders/:id: authorize, schema.validate, WorkOrder.findByPk
WorkOrderUpdateFind(p, c) ==
    /\ CanBegin(p)
    /\ \E id \in RowIdInputs, body \in BodyInputs("work_orders") :
        /\ req' = [req EXCEPT ![p] = [kind |-> "update", resource |-> "work_orders",
                                      credentials |-> c, id |-> id, body |-> body]]
        /\ LET a == Authorize(c, AllowedRoles("work_orders", "PUT"))
               r == AfterAuthorize(a)
           IN  /\ ran' = [ran EXCEPT ![p] = a.next]
               /\ IF ~a.next THEN Over(p, r)
                  ELSE IF ~ValidateBody("work_orders", body)
                  THEN Over(p, HandlerExit(r, 400, {}))
                  ELSE IF ~FindByPk("work_orders", id)
                  THEN Over(p, HandlerExit(r, 404, {}))
                  ELSE Await(p, r, "update_write")
    /\ Began(p)
    /\ UNCHANGED <<ledger, maintenance, store, users>>

\* workOrder.update(value); res.json(workOrder)
WorkOrderUpdateWrite(p) ==
    /\ pc[p] = "update_write"
    /\ IF ColumnsAccept("work_orders", req[p].body)
       THEN /\ store' = [store EXCEPT !["work_orders"][req[p].id].status =
                                          req[p].body.status]
            /\ Over(p, HandlerExit(res[p], 200, {req[p].id}))
       ELSE /\ UNCHANGED store
            /\ Over(p, HandlerExit(res[p], 500, {}))
    /\ Interfered(p)
    /\ UNCHANGED <<ledger, maintenance, users, req, ran>>

\* DELETE /<resource>/:id: authorize, Model.findByPk
ResourceDeleteFind(p, k, c) ==
    /\ CanBegin(p)
    /\ \E id \in RowIdInputs :
        /\ req' = [req EXCEPT ![p] = [kind |-> "remove", resource |-> k,
                                      credentials |-> c, id |-> id]]
        /\ LET a == Authorize(c, AllowedRoles(k, "DELETE"))
               r == AfterAuthorize(a)
           IN  /\ ran' = [ran EXCEPT ![p] = a.next]
               /\ IF ~a.next THEN Over(p, r)
                  ELSE IF ~FindByPk(k, id) THEN Over(p, HandlerExit(r, 404, {}))
                  ELSE Await(p, r, "remove_destroy")
    /\ Began(p)
    /\ UNCHANGED <<ledger, maintenance, store, users>>

\* Mutant: deleting a work order deletes the parts that reference it
\* (ON DELETE CASCADE, as on a hard delete).
ResourceDeleteDestroyCascades(p) ==
    /\ pc[p] = "remove_destroy"
    /\ store' = [store EXCEPT ![req[p].resource][req[p].id].deleted = TRUE]
    /\ parts' = [k \in 1..Len(parts) |->
                    IF req[p].resource = "work_orders" /\ parts[k].work_order_id = req[p].id
                    THEN [parts[k] EXCEPT !.deleted = TRUE] ELSE parts[k]]
    /\ Over(p, HandlerExit(res[p], 204, {}))
    /\ Interfered(p)
    /\ UNCHANGED <<inventory, maintenance, users, req, ran>>

\* instance.destroy() (soft delete); res.status(204).send()
ResourceDeleteDestroy(p) ==
    /\ pc[p] = "remove_destroy"
    /\ store' = [store EXCEPT ![req[p].resource][req[p].id].deleted = TRUE]
    /\ Over(p, HandlerExit(res[p], 204, {}))
    /\ Interfered(p)
    /\ UNCHANGED <<ledger, maintenance, users, req, ran>>

\* ------------------------------------------------------------- app.ts
\* The routers app.ts mounts with app.use; the maintenance-schedule router's
\* line is commented out.
AppRouters == {"plant", "vendor", "inventory", "machine", "calls", "workOrder",
               "workOrderParts", "workOrderLabor", "auth", "report"}
\* Paths (below /api) of requests, and the router that declares each.
PathInputs == {"maintenance-schedules", "maintenance-schedules/1/complete", "nowhere"}
RouterOf(path) ==
    IF path \in {"maintenance-schedules", "maintenance-schedules/1/complete"}
    THEN "maintenanceSchedule"
    ELSE "none"

\* The middleware app.ts registers after the routers, in order, each with the
\* number of parameters its function declares.
TrailingMiddleware ==
    <<[name |-> "errorHandler", arity |-> 3], [name |-> "notFound", arity |-> 2]>>

\* The status a request gets that reaches the n-th trailing middleware with no
\* error pending.  Express calls a function of fewer than four parameters as
\* (req, res, next): in (err, req, res) => ... the name res is then bound to
\* next, res.status is not a function, and the TypeError goes past the remaining
\* non-error middleware to Express's final handler, which answers 500.
RECURSIVE FallThroughStatus(_)
FallThroughStatus(n) ==
    IF n > Len(TrailingMiddleware) THEN 404
    ELSE IF TrailingMiddleware[n].arity >= 4 THEN FallThroughStatus(n + 1)
    ELSE IF TrailingMiddleware[n].name = "errorHandler" THEN 500
    ELSE 404

\* A request that no mounted router matches falls through to the trailing
\* middleware.
AppFallThrough(p, c) ==
    /\ CanBegin(p)
    /\ \E path \in PathInputs :
        /\ RouterOf(path) \notin AppRouters
        /\ req' = [req EXCEPT ![p] = [kind |-> "fallthrough", path |-> path,
                                      credentials |-> c]]
    /\ Over(p, ResJson(NoResponse, FallThroughStatus(1), {}))
    /\ ran' = [ran EXCEPT ![p] = FALSE]
    /\ Began(p)
    /\ UNCHANGED <<ledger, maintenance, store, users>>

\* The work-order router behind the app.
NextWorkOrders ==
    \E p \in Procs :
        \/ \E c \in CredentialInputs : ResourceList(p, "work_orders", c)
        \/ \E c \in CredentialInputs : ResourceCreate(p, "work_orders", c)
        \/ \E c \in CredentialInputs : WorkOrderUpdateFind(p, c)
        \/ WorkOrderUpdateWrite(p)
        \/ \E c \in CredentialInputs : ResourceDeleteFind(p, "work_orders", c)
        \/ ResourceDeleteDestroy(p)
        \/ \E c \in CredentialInputs : AppFallThrough(p, c)
        \/ Finish(p)

SpecWorkOrders == Init /\ [][NextWorkOrders]_vars

\* ---------------------------------------------------------- authorization
\* The requests on role-gated routes, and the allow-list of the route of one.
Gated(p) == pc[p] # "idle" /\ req[p].kind \in {"list", "create", "update", "remove"}
RouteRoles(r) ==
    AllowedRoles(r.resource, CASE r.kind = "list" -> "GET"
                               [] r.kind = "create" -> "POST"
                               [] r.kind = "update" -> "PUT"
                               [] r.kind = "remove" -> "DELETE")

\* C12 (as claimed): a request on a role-gated route whose valid token carries a
\* role outside the route's allow-list is answered 403 and its handler is not
\* run.
ForbiddenRoleStopsRequest ==
    \A p \in Procs :
        ( /\ Gated(p)
          /\ JwtVerify(req[p].credentials.cookie)
          /\ req[p].credentials.cookie \notin RouteRoles(req[p]) ) =>
            /\ status[p] = 403
            /\ ~ran[p]

ExactlyOneResponse ==
    \A p \in Procs :
        /\ res[p].sends <= 1
        /\ pc[p] = "done" /\ req[p].kind \in {"list", "create", "update", "remove",
                                              "fallthrough"}
               => res[p].sends = 1

\* C18 (as claimed): with a valid admin token in the Authorization: Bearer header
\* only, POST /work-orders with valid data answers 201 having created the work
\* order, and GET /work-orders answers 200 with the stored work orders.
BearerHeaderAuthenticates ==
    \A p \in Procs :
        ( /\ pc[p] = "done"
          /\ req[p].kind \in {"list", "create"}
          /\ req[p].credentials = [cookie |-> NoToken, bearer |-> "admin"] ) =>
            /\ ran[p]
            /\ req[p].kind = "list" => status[p] = 200
            /\ ( /\ req[p].kind = "create"
                 /\ ValidateBody(req[p].resource, req[p].body)
                 /\ ColumnsAccept(req[p].resource, req[p].body) )
               => status[p] = 201 /\ res[p].body \subseteq 1..Len(store[req[p].resource])
                                  /\ res[p].body # {}

\* C19 (as claimed): each of pending, in_progress, completed and cancelled is
\* accepted by work-order create and by update of a work order that exists,
\* whatever the status it replaces, and every stored work order's status is one
\* of the four.
WorkOrderStatusFreeStanding ==
    /\ \A i \in 1..Len(store["work_orders"]) :
           store["work_orders"][i].status
               \in {"pending", "in_progress", "completed", "cancelled"}
    /\ \A p \in Procs :
        ( /\ pc[p] = "done"
          /\ req[p].kind \in {"create", "update"}
          /\ req[p].credentials.cookie = "admin"
          /\ req[p].body.title_length \in 1..100
          /\ req[p].body.status \in {"pending", "in_progress", "completed", "cancelled"} ) =>
            /\ req[p].kind = "create" => status[p] = 201
            /\ req[p].kind = "update" => status[p] \in {200, 404}

\* C20 (as claimed): a request to /maintenance-schedules or to
\* /maintenance-schedules/{id}/complete reaches the maintenance-schedule router's
\* handler and does not fall through the mounted routers.
MaintenanceSchedulesServed ==
    \A p \in Procs :
        ( /\ pc[p] = "done"
          /\ req[p].kind = "fallthrough" ) =>
            RouterOf(req[p].path) # "maintenanceSchedule"

\* C21 (as claimed): a request on a path that no router declares is answered 404
\* ('Route not found'), once; it is not answered 500.
UnmatchedRouteNotFound ==
    \A p \in Procs :
        ( /\ pc[p] = "done"
          /\ req[p].kind = "fallthrough"
          /\ RouterOf(req[p].path) = "none" ) =>
            /\ status[p] = 404
            /\ res[p].sends = 1

\* ------------------------------------------------------------ soft delete
\* The five resource routers, with an admin, a technician and no token.
CrudCredentials ==
    {[cookie |-> c, bearer |-> NoToken] : c \in {"admin", "technician", NoToken}}

NextCrud ==
    \E p \in Procs, k \in ResourceKinds :
        \/ \E c \in CrudCredentials : ResourceList(p, k, c)
        \/ \E c \in CrudCredentials : ResourceCreate(p, k, c)
        \/ \E c \in CrudCredentials : ResourceDeleteFind(p, k, c)
        \/ ResourceDeleteDestroy(p)
        \/ Finish(p)

SpecCrud == Init /\ [][NextCrud]_vars

\* A request of the given kind on resource k was answered s in slot q.
Answered(q, kind, k, s) ==
    pc[q] = "done" /\ req[q].kind = kind /\ req[q].resource = k /\ status[q] = s

UsernameInputs == {"alice", "bob"}
EmailInputs == {"a@plant.example", "b@plant.example"}
\* The empty password is what validateUser refuses.
PasswordInputs == {"", "password123", "wrongpassword"}

\* validateUser(req.body).error is undefined
ValidateUser(body) == body.username # "" /\ body.email # "" /\ body.password # ""

\* bcrypt.hash(password, salt) and bcrypt.compare(password, hash)
BcryptHash(password) == <<"$2b$10$", password>>
BcryptCompare(password, hash) == hash = BcryptHash(password)

\* User.findOne({where: {[Op.or]: [{email}, {username}]}}) finds a row
UserExists(username, email) ==
    \E i \in 1..Len(users) : users[i].email = email \/ users[i].username = username

\* Mutant: the users table has no unique index on username and email.
RegisterCreateNoUniqueIndex(p) ==
    /\ pc[p] = "register_create"
    /\ users' = Append(users, [username |-> req[p].body.username,
                               email |-> req[p].body.email,
                               password |-> BcryptHash(req[p].body.password)])
    /\ Over(p, HandlerExit(res[p], 201, {"user_id", "username", "email"}))
    /\ Interfered(p)
    /\ UNCHANGED <<ledger, maintenance, store, req, ran>>

\* POST /register: validateUser and User.findOne
RegisterFindUser(p) ==
    /\ CanBegin(p)
    /\ \E u \in UsernameInputs, e \in EmailInputs, pw \in PasswordInputs \ {"wrongpassword"} :
        LET body == [username |-> u, email |-> e, password |-> pw] IN
        /\ req' = [req EXCEPT ![p] = [kind |-> "register", body |-> body]]
        /\ IF ~ValidateUser(body) THEN Over(p, HandlerExit(NoResponse, 400, {}))
           ELSE IF UserExists(u, e) THEN Over(p, HandlerExit(NoResponse, 400, {}))
           ELSE Await(p, NoResponse, "register_create")
    /\ ran' = [ran EXCEPT ![p] = TRUE]
    /\ Began(p)
    /\ UNCHANGED <<ledger, maintenance, store, users>>

\* bcrypt.genSalt, bcrypt.hash and User.create: the unique indexes on username
\* and email make the INSERT throw, which the catch answers with 500.
RegisterCreate(p) ==
    /\ pc[p] = "register_create"
    /\ IF UserExists(req[p].body.username, req[p].body.email)
       THEN /\ UNCHANGED users
            /\ Over(p, HandlerExit(res[p], 500, {}))
       ELSE /\ users' = Append(users, [username |-> req[p].body.username,
                                       email |-> req[p].body.email,
                                       password |-> BcryptHash(req[p].body.password)])
            /\ Over(p, HandlerExit(res[p], 201, {"user_id", "username", "email"}))
    /\ Interfered(p)
    /\ UNCHANGED <<ledger, maintenance, store, req, ran>>

\* POST /login: passport's local strategy (User.findOne by email,
\* bcrypt.compare), then the callback: 401, or jwt.sign, res.cookie('jwt', token)
\* and res.status(200).json({user})
Login(p) ==
    /\ CanBegin(p)
    /\ \E e \in EmailInputs, pw \in PasswordInputs \ {""} :
        /\ req' = [req EXCEPT ![p] = [kind |-> "login", email |-> e, password |-> pw]]
        /\ LET found == {i \in 1..Len(users) : users[i].email = e} IN
           IF found = {} THEN Over(p, HandlerExit(NoResponse, 401, {"message"}))
           ELSE IF ~BcryptCompare(pw, users[CHOOSE i \in found : TRUE].password)
           THEN Over(p, HandlerExit(NoResponse, 401, {"message"}))
           ELSE Over(p, HandlerExit([NoResponse EXCEPT !.cookie = TRUE], 200, {"user"}))
    /\ ran' = [ran EXCEPT ![p] = TRUE]
    /\ Began(p)
    /\ UNCHANGED <<ledger, maintenance, store, users>>

NextAuth ==
    \E p \in Procs :
        \/ RegisterFindUser(p)
        \/ RegisterCreate(p)
        \/ Login(p)
        \/ Finish(p)

SpecAuth == Init /\ [][NextAuth]_vars

\* ---------------------------------------------------------- registration
SharesIdentity(i, body) ==
    users[i].username = body.username \/ users[i].email = body.email

LoginReturnsToken ==
    \A p \in Procs, i \in 1..Len(users) :
        ( /\ AnsweredAlone(p, "login")
          /\ users[i].email = req[p].email ) =>
            IF BcryptCompare(req[p].password, users[i].password)
            THEN status[p] = 200 /\ {"token", "user"} \subseteq res[p].body
            ELSE status[p] = 401 /\ "token" \notin res[p].body /\ ~res[p].cookie

\* ---------------------------------------------------------- machine routes
\* Rows of store["machines"] written by the machine router carry the columns
\* serial_number and name.
SerialInputs == {"SN1", "SN2"}
MachineNameInputs == {"press", "lathe"}
\* plant_id in a body: null, or the id of the first plant row.
NullId == 0
PlantIdInputs == {NullId, 1}
\* Bodies: well-formed ones, and one machineValidationSchema refuses (the
\* required serial_number is empty).
MachineBodies ==
    {[serial_number |-> sn, name |-> n, plant_id |-> pl] :
         sn \in SerialInputs, n \in MachineNameInputs, pl \in PlantIdInputs}
    \cup {[serial_number |-> "", name |-> "press", plant_id |-> NullId]}
MachineCredentials ==
    {[cookie |-> c, bearer |-> NoToken] : c \in {"admin", "technician"}}

\* machineValidationSchema.validate(req.body).error is undefined
ValidateMachine(body) == body.serial_number # "" /\ body.name # ""

\* Machine.findOne({where: {serial_number}}) on the paranoid model: the ids of
\* the rows found (soft-deleted rows are not).
FindOneBySerial(serial) ==
    {i \in 1..Len(store["machines"]) :
         /\ store["machines"][i].serial_number = serial
         /\ ~store["machines"][i].deleted}

\* The unique index on machines.serial_number refuses the value for row id
\* (0 = a new row): some other row, soft-deleted or not, holds it.
SerialIndexRefuses(serial, id) ==
    \E i \in 1..Len(store["machines"]) :
        i # id /\ store["machines"][i].serial_number = serial

\* The handler in slot p waits at its next await holding the instance l.
AwaitHolding(p, r, label, l) ==
    /\ pc' = [pc EXCEPT ![p] = label]
    /\ loc' = [loc EXCEPT ![p] = l]
    /\ res' = [res EXCEPT ![p] = r]
    /\ status' = [status EXCEPT ![p] = r.status]

\* The duplicate check of POST /machines, on the response r.
MachineCreateCheckSerial(p, r, body) ==
    IF FindOneBySerial(body.serial_number) # {}
    THEN Over(p, HandlerExit(r, 400, {}))
    ELSE Await(p, r, "machine_create_insert")

\* POST /machines: authorize, schema.validate, then Plant.findByPk when the
\* body names a plant, Machine.findOne when it does not
MachineCreateFind(p, c) ==
    /\ CanBegin(p)
    /\ \E body \in MachineBodies :
        /\ req' = [req EXCEPT ![p] = [kind |-> "machine_create", resource |-> "machines",
                                      credentials |-> c, body |-> body]]
        /\ LET a == Authorize(c, AllowedRoles("machines", "POST"))
               r == AfterAuthorize(a)
           IN  /\ ran' = [ran EXCEPT ![p] = a.next]
               /\ IF ~a.next THEN Over(p, r)
                  ELSE IF ~ValidateMachine(body) THEN Over(p, HandlerExit(r, 400, {}))
                  ELSE IF body.plant_id # NullId
                  THEN IF FindByPk("plants", body.plant_id)
                       THEN Await(p, r, "machine_create_findSerial")
                       ELSE Over(p, HandlerExit(r, 404, {}))
                  ELSE MachineCreateCheckSerial(p, r, body)
    /\ Began(p)
    /\ UNCHANGED <<ledger, maintenance, store, users>>

\* Machine.findOne({where: {serial_number}}) after the plant was found
MachineCreateFindSerial(p) ==
    /\ pc[p] = "machine_create_findSerial"
    /\ MachineCreateCheckSerial(p, res[p], req[p].body)
    /\ Interfered(p)
    /\ UNCHANGED <<ledger, maintenance, store, users, req, ran>>

\* Mutant: the machines table has no unique index on serial_number.
MachineCreateInsertNoUniqueIndex(p) ==
    /\ pc[p] = "machine_create_insert"
    /\ store' = [store EXCEPT !["machines"] =
                    Append(@, [serial_number |-> req[p].body.serial_number,
                               name |-> req[p].body.name, deleted |-> FALSE])]
    /\ Over(p, HandlerExit(res[p], 201, {Len(store["machines"]) + 1}))
    /\ Interfered(p)
    /\ UNCHANGED <<ledger, maintenance, users, req, ran>>

\* Machine.create(value): the unique index makes the INSERT throw a
\* UniqueConstraintError, a ValidationError, which the catch answers with 400.
MachineCreateInsert(p) ==
    /\ pc[p] = "machine_create_insert"
    /\ IF SerialIndexRefuses(req[p].body.serial_number, 0)
       THEN /\ UNCHANGED store
            /\ Over(p, HandlerExit(res[p], 400, {}))
       ELSE /\ store' = [store EXCEPT !["machines"] =
                            Append(@, [serial_number |-> req[p].body.serial_number,
                                       name |-> req[p].body.name, deleted |-> FALSE])]
            /\ Over(p, HandlerExit(res[p], 201, {Len(store["machines"]) + 1}))
    /\ Interfered(p)
    /\ UNCHANGED <<ledger, maintenance, users, req, ran>>

\* PUT /machines/:id: authorize, schema.validate, Machine.findByPk
MachineUpdateFind(p, c) ==
    /\ CanBegin(p)
    /\ \E id \in RowIdInputs, body \in MachineBodies :
        /\ req' = [req EXCEPT ![p] = [kind |-> "machine_update", resource |-> "machines",
                                      credentials |-> c, id |-> id, body |-> body]]
        /\ LET a == Authorize(c, AllowedRoles("machines", "PUT"))
               r == AfterAuthorize(a)
           IN  /\ ran' = [ran EXCEPT ![p] = a.next]
               /\ IF ~a.next THEN Over(p, r)
                  ELSE IF ~ValidateMachine(body) THEN Over(p, HandlerExit(r, 400, {}))
                  ELSE IF ~FindByPk("machines", id) THEN Over(p, HandlerExit(r, 404, {}))
                  ELSE AwaitHolding(p, r,
                                    IF body.plant_id # NullId THEN "machine_update_findPlant"
                                    ELSE "machine_update_findSerial",
                                    [serial_number |-> store["machines"][id].serial_number,
                                     name |-> store["machines"][id].name])
    /\ Began(p)
    /\ UNCHANGED <<ledger, maintenance, store, users>>

\* Plant.findByPk(value.plant_id)
MachineUpdateFindPlant(p) ==
    /\ pc[p] = "machine_update_findPlant"
    /\ IF FindByPk("plants", req[p].body.plant_id)
       THEN AwaitHolding(p, res[p], "machine_update_findSerial", loc[p])
       ELSE Over(p, HandlerExit(res[p], 404, {}))
    /\ Interfered(p)
    /\ UNCHANGED <<ledger, maintenance, store, users, req, ran>>

\* Machine.findOne({where: {serial_number}}), refused unless it is this machine
MachineUpdateFindSerial(p) ==
    /\ pc[p] = "machine_update_findSerial"
    /\ IF FindOneBySerial(req[p].body.serial_number) \ {req[p].id} # {}
       THEN Over(p, HandlerExit(res[p], 400, {}))
       ELSE AwaitHolding(p, res[p], "machine_update_write", loc[p])
    /\ Interfered(p)
    /\ UNCHANGED <<ledger, maintenance, store, users, req, ran>>

\* machine.update(value): no UPDATE when no attribute differs from the instance;
\* otherwise the body's attributes are written by primary key, and the unique
\* index makes a duplicate serial_number throw (400).
MachineUpdateWrite(p) ==
    /\ pc[p] = "machine_update_write"
    /\ IF /\ req[p].body.serial_number = loc[p].serial_number
          /\ req[p].body.name = loc[p].name
       THEN /\ UNCHANGED store
            /\ Over(p, HandlerExit(res[p], 200, {req[p].id}))
       ELSE IF SerialIndexRefuses(req[p].body.serial_number, req[p].id)
       THEN /\ UNCHANGED store
            /\ Over(p, HandlerExit(res[p], 400, {}))
       ELSE /\ store' = [store EXCEPT !["machines"][req[p].id] =
                            [@ EXCEPT !.serial_number = req[p].body.serial_number,
                                      !.name = req[p].body.name]]
            /\ Over(p, HandlerExit(res[p], 200, {req[p].id}))
    /\ Interfered(p)
    /\ UNCHANGED <<ledger, maintenance, users, req, ran>>

\* The machine router, with the plant router's POST /plants.
NextMachines ==
    \E p \in Procs :
        \/ \E c \in MachineCredentials : MachineCreateFind(p, c)
        \/ MachineCreateFindSerial(p)
        \/ MachineCreateInsert(p)
        \/ \E c \in MachineCredentials : MachineUpdateFind(p, c)
        \/ MachineUpdateFindPlant(p)
        \/ MachineUpdateFindSerial(p)
        \/ MachineUpdateWrite(p)
        \/ \E c \in MachineCredentials : ResourceDeleteFind(p, "machines", c)
        \/ ResourceDeleteDestroy(p)
        \/ ResourceCreate(p, "plants", [cookie |-> "admin", bearer |-> NoToken])
        \/ Finish(p)

SpecMachines == Init /\ [][NextMachines]_vars

\* ---------------------------------------------------------- serial numbers
\* Another machine row than id (0 = none yet) holds the serial, soft-deleted or
\* not.
HeldByAnother(serial, id) ==
    \E i \in 1..Len(store["machines"]) :
        i # id /\ store["machines"][i].serial_number = serial

\* C22: in every reachable state no two machine rows share a serial_number; and
\* an authorized creation, or an authorized update that changes the serial the
\* request read, which ends (other than with 404) while another machine row,
\* soft-deleted or not, holds its serial_number is answered 400 and leaves the
\* machines as they are.
SerialNumbersUnique ==
    /\ [](\A i, j \in 1..Len(store["machines"]) :
              i # j => store["machines"][i].serial_number
                           # store["machines"][j].serial_number)
    /\ [][\A p \in Procs :
              ( /\ pc[p] # "done" /\ pc'[p] = "done"
                /\ req'[p].kind \in {"machine_create", "machine_update"}
                /\ req'[p].credentials.cookie = "admin"
                /\ ValidateMachine(req'[p].body)
                /\ status'[p] # 404
                /\ IF req'[p].kind = "machine_create"
                   THEN HeldByAnother(req'[p].body.serial_number, 0)
                   ELSE /\ pc[p] # "idle"
                        /\ loc[p].serial_number # req[p].body.serial_number
                        /\ HeldByAnother(req[p].body.serial_number, req[p].id) ) =>
                  /\ status'[p] = 400
                  /\ store' = store]_vars

\* C22 witness: a creation was answered 400 whose serial_number is held only by
\* a soft-deleted machine.
SerialNumbersUniqueWitness ==
    \E p \in Procs :
        /\ pc[p] = "done" /\ req[p].kind = "machine_create" /\ status[p] = 400
        /\ req[p].credentials.cookie = "admin"
        /\ \E i \in 1..Len(store["machines"]) :
               /\ store["machines"][i].serial_number = req[p].body.serial_number
               /\ store["machines"][i].deleted

\* ------------------------------------------------------ part quantities
\* C23 (as claimed): a part update run in isolation that is not answered 200
\* leaves every inventory quantity and every part's quantity_used as they were.
FailedUpdateChangesNothing ==
    \A p \in Procs :
        AnsweredAlone(p, "update") /\ status[p] # 200 =>
            /\ inventory = start[p].inventory
            /\ parts = start[p].parts

\* C24 (as claimed): every active part has quantity_used > 0 in every reachable
\* state, and no step of a create or update request whose quantity_used is <= 0
\* stores that value in a part or increases an inventory quantity.
PartQuantityAlwaysPositive ==
    /\ [](\A k \in 1..Len(parts) : ~parts[k].deleted => parts[k].quantity_used > 0)
    /\ [][\A p \in Procs :
              ( /\ pc[p] # "idle" /\ pc'[p] # pc[p]
                /\ req[p].kind \in {"create", "update"}
                /\ req[p].quantity_used <= 0 ) =>
                  /\ \A i \in ItemIds : inventory'[i] <= inventory[i]
                  /\ \A k \in 1..Len(parts') : parts'[k].quantity_used > 0]_vars

\* ------------------------------------------- DELETE /work-order-parts/:id
\* The tables after one part was created on an item (POST
\* /work-orders/1/parts answered 201): the item holds its initial quantity less
\* the part's quantity_used.
InitOnePart ==
    /\ \E i \in ItemIds, u \in 1..InitQuantity :
        /\ inventory = [[j \in ItemIds |-> InitQuantity] EXCEPT ![i] = InitQuantity - u]
        /\ parts = <<[work_order_id |-> 1, inventory_id |-> i, quantity_used |-> u,
                      deleted |-> FALSE]>>
    /\ machines = [m \in MachineIds |-> [deleted |-> FALSE,
                                          last_maintenance_date |-> NullDate,
                                          next_maintenance_date |-> NullDate]]
    /\ schedules = <<>>
    /\ served = 0
    /\ pc = [p \in Procs |-> "idle"]
    /\ req = [p \in Procs |-> NoRequest]
    /\ loc = [p \in Procs |-> NoLocals]
    /\ status = [p \in Procs |-> 0]
    /\ alone = [p \in Procs |-> FALSE]
    /\ start = [p \in Procs |-> NoStart]
    /\ store = [k \in StoreKinds |-> <<>>]
    /\ users = <<>>
    /\ res = [p \in Procs |-> NoResponse]
    /\ ran = [p \in Procs |-> FALSE]

\* DELETE /work-order-parts/:id alone
NextDeletes ==
    \E p \in Procs :
        \/ DeletePartFindPart(p)
        \/ DeletePartFindInventory(p)
        \/ DeletePartUpdateInventory(p)
        \/ DeletePartDestroy(p)
        \/ Finish(p)

SpecDeletes == InitOnePart /\ [][NextDeletes]_vars

\* C25 (as claimed): with deletions only, after a part was created, the part's
\* consumption is given back at most once: no item ever holds more than its
\* initial quantity, and when two DELETEs of the same part have both been
\* answered the part's item holds exactly its initial quantity.
DeleteRestoresOnce ==
    /\ \A i \in ItemIds : inventory[i] <= InitQuantity
    /\ \A p, q \in Procs :
        ( /\ p # q
          /\ pc[p] = "done" /\ req[p].kind = "delete"
          /\ pc[q] = "done" /\ req[q].kind = "delete"
          /\ req[p].part_id = req[q].part_id
          /\ req[p].part_id \in 1..Len(parts) ) =>
            inventory[parts[req[p].part_id].inventory_id] = InitQuantity

\* ------------------------------------------ PUT /maintenance-schedules/:id
\* C26 (as claimed): a PUT run in isolation on a schedule that exists, with a
\* name of at least 3 characters, a description, a positive frequency_days and a
\* next_due that parses, and no machine_id in the body, is answered 200 and the
\* schedule holds the new frequency_days and next_due.
ScheduleUpdateSucceeds ==
    \A p \in Procs :
        ( /\ AnsweredAlone(p, "schedule_update")
          /\ req[p].schedule_id \in 1..Len(start[p].schedules)
          /\ ~start[p].schedules[req[p].schedule_id].deleted
          /\ req[p].body.machine_id = AbsentField
          /\ req[p].body.name_length >= 3
          /\ req[p].body.description_length > 0
          /\ req[p].body.frequency_days > 0
          /\ req[p].body.next_due \notin {AbsentField, NullDate} ) =>
            /\ status[p] = 200
            /\ schedules[req[p].schedule_id].frequency_days = req[p].body.frequency_days
            /\ schedules[req[p].schedule_id].next_due = req[p].body.next_due

\* ------------------------------------------------------------ POST /calls
\* callValidationSchema: status
JoiCallStatusValues == {"open", "in-progress", "closed"}
\* Call.init: status ENUM
CallStatusEnum == {"reported", "assigned", "in_progress", "completed"}
\* The roles POST /calls passes to authorize.
CallRoles == {"admin", "technician"}

\* Request bodies.  A key the body does not carry is AbsentField (shift) or ""
\* (line, issue, description, status).  The calls of the data model carry
\* shift, line, issue and status; the bodies callValidationSchema describes
\* carry description and status.
CallBodies ==
    {[shift |-> sh, line |-> "L1", issue |-> "jam", description |-> d, status |-> st] :
         sh \in {1, 3}, d \in {"", "jam"}, st \in CallStatusEnum}
    \cup {[shift |-> AbsentField, line |-> "", issue |-> "", description |-> d,
           status |-> st] : d \in {"", "jam"}, st \in JoiCallStatusValues \cup {""}}
CallCredentials ==
    {[cookie |-> c, bearer |-> NoToken] : c \in {"admin", "technician", "manager"}}

\* callValidationSchema.validate(req.body).error is undefined: the schema's keys
\* are machine_id, work_order_id, reporter_id, description, status and
\* reported_at; a key outside them is refused, description is required.
ValidateCall(body) ==
    /\ body.shift = AbsentField /\ body.line = "" /\ body.issue = ""
    /\ body.description # ""
    /\ body.status \in JoiCallStatusValues \cup {""}

\* value.status after validation: default('open')
CallStatusValue(body) == IF body.status = "" THEN "open" ELSE body.status

\* Call.create's model validation passes: shift, line and issue are allowNull:
\* false, shift isIn [1, 2, 3], line and issue notEmpty.
CallModelValid(body) ==
    /\ body.shift \in {1, 2, 3}
    /\ body.line # ""
    /\ body.issue # ""

\* POST /calls: authorize, callValidationSchema.validate, Call.create
CallCreate(p, c) ==
    /\ CanBegin(p)
    /\ \E body \in CallBodies :
        /\ req' = [req EXCEPT ![p] = [kind |-> "call_create", resource |-> "calls",
                                      credentials |-> c, body |-> body]]
        /\ LET a == Authorize(c, CallRoles)
               r == AfterAuthorize(a)
           IN  /\ ran' = [ran EXCEPT ![p] = a.next]
               /\ IF ~a.next THEN Over(p, r) /\ UNCHANGED store
                  ELSE IF ~ValidateCall(body)
                  THEN Over(p, HandlerExit(r, 400, {})) /\ UNCHANGED store
                  ELSE IF ~CallModelValid(body)
                  THEN Over(p, HandlerExit(r, 400, {})) /\ UNCHANGED store
                  ELSE IF CallStatusValue(body) \notin CallStatusEnum
                  THEN Over(p, HandlerExit(r, 500, {})) /\ UNCHANGED store
                  ELSE /\ store' = [store EXCEPT !["calls"] =
                                       Append(@, [shift |-> body.shift, line |-> body.line,
                                                  issue |-> body.issue,
                                                  status |-> CallStatusValue(body),
                                                  deleted |-> FALSE])]
                       /\ Over(p, HandlerExit(r, 201, {Len(store["calls"]) + 1}))
    /\ Began(p)
    /\ UNCHANGED <<ledger, maintenance, users>>

\* The calls router's POST.
NextCalls ==
    \E p \in Procs :
        \/ \E c \in CallCredentials : CallCreate(p, c)
        \/ Finish(p)

SpecCalls == Init /\ [][NextCalls]_vars

\* C27 (as claimed): an authorized POST /calls whose body is a well-formed call
\* of the data model (shift in {1, 2, 3}, non-empty line and issue, status one
\* of reported, assigned, in_progress, completed) is answered 201 and a call
\* with those values is stored.
CallCreateAccepted ==
    \A p \in Procs :
        ( /\ pc[p] = "done" /\ req[p].kind = "call_create"
          /\ req[p].credentials.cookie \in CallRoles
          /\ req[p].body.shift \in {1, 2, 3}
          /\ req[p].body.line # "" /\ req[p].body.issue # ""
          /\ req[p].body.status \in {"reported", "assigned", "in_progress", "completed"} ) =>
            /\ status[p] = 201
            /\ \E i \in res[p].body :
                   /\ i \in 1..Len(store["calls"])
                   /\ store["calls"][i].shift = req[p].body.shift
                   /\ store["calls"][i].status = req[p].body.status

\* ------------------------------------------- a work order and its children
\* The tables after work order 1 was created, one part was consumed for it
\* (POST /work-orders/1/parts answered 201) and one labor record was added.
InitWorkOrderWithPart ==
    /\ \E i \in ItemIds, u \in 1..InitQuantity :
        /\ inventory = [[j \in ItemIds |-> InitQuantity] EXCEPT ![i] = InitQuantity - u]
        /\ parts = <<[work_order_id |-> 1, inventory_id |-> i, quantity_used |-> u,
                      deleted |-> FALSE]>>
    /\ machines = [m \in MachineIds |-> [deleted |-> FALSE,
                                          last_maintenance_date |-> NullDate,
                                          next_maintenance_date |-> NullDate]]
    /\ schedules = <<>>
    /\ served = 0
    /\ pc = [p \in Procs |-> "idle"]
    /\ req = [p \in Procs |-> NoRequest]
    /\ loc = [p \in Procs |-> NoLocals]
    /\ status = [p \in Procs |-> 0]
    /\ alone = [p \in Procs |-> FALSE]
    /\ start = [p \in Procs |-> NoStart]
    /\ store = [k \in StoreKinds |->
                   IF k = "work_orders" THEN <<[status |-> "pending", deleted |-> FALSE]>>
                   ELSE IF k = "work_order_labor"
                   THEN <<[work_order_id |-> 1, hours_worked |-> 2, deleted |-> FALSE]>>
                   ELSE <<>>]
    /\ users = <<>>
    /\ res = [p \in Procs |-> NoResponse]
    /\ ran = [p \in Procs |-> FALSE]

\* WorkOrderPart.findAll({where: {work_order_id}}) on the paranoid model
PartsOfWorkOrder(w) ==
    {k \in 1..Len(parts) : parts[k].work_order_id = w /\ ~parts[k].deleted}
\* WorkOrderLabor.findAll({where: {work_order_id}}) on the paranoid model
LaborOfWorkOrder(w) ==
    {k \in 1..Len(store["work_order_labor"]) :
         /\ store["work_order_labor"][k].work_order_id = w
         /\ ~store["work_order_labor"][k].deleted}

\* GET /work-orders/:workOrderId/parts: WorkOrderPart.findAll, res.json
PartsList(p) ==
    /\ CanBegin(p)
    /\ \E w \in RowIdInputs :
        /\ req' = [req EXCEPT ![p] = [kind |-> "parts_list", work_order_id |-> w]]
        /\ Over(p, HandlerExit(NoResponse, 200, PartsOfWorkOrder(w)))
    /\ ran' = [ran EXCEPT ![p] = TRUE]
    /\ Began(p)
    /\ UNCHANGED <<ledger, maintenance, store, users>>

\* GET /work-orders/:workOrderId/labor: WorkOrderLabor.findAll, res.json
LaborList(p) ==
    /\ CanBegin(p)
    /\ \E w \in RowIdInputs :
        /\ req' = [req EXCEPT ![p] = [kind |-> "labor_list", work_order_id |-> w]]
        /\ Over(p, HandlerExit(NoResponse, 200, LaborOfWorkOrder(w)))
    /\ ran' = [ran EXCEPT ![p] = TRUE]
    /\ Began(p)
    /\ UNCHANGED <<ledger, maintenance, store, users>>

\* DELETE /work-orders/:id beside the routes on the work order's parts and labor.
NextWorkOrderDelete ==
    \E p \in Procs :
        \/ \E c \in CrudCredentials : ResourceDeleteFind(p, "work_orders", c)
        \/ ResourceDeleteDestroy(p)
        \/ PartsList(p)
        \/ LaborList(p)
        \/ DeletePartFindPart(p)
        \/ DeletePartFindInventory(p)
        \/ DeletePartUpdateInventory(p)
        \/ DeletePartDestroy(p)
        \/ Finish(p)

SpecWorkOrderDelete == InitWorkOrderWithPart /\ [][NextWorkOrderDelete]_vars

JobMachineIds == {1, 2}

\* next_maintenance_date values of the machines, around the job's window.
JobDateInputs == {NullDate, Today - 1, Today, Today + 7, Today + 8}

JobTitle == "Scheduled Maintenance"

\* Work orders entered through the API before the job runs.
JobWorkOrderInputs ==
    [status : WorkOrderStatusEnum, machine_id : JobMachineIds \cup {NullId},
     title : {"other"}, deleted : BOOLEAN]

InitJob ==
    /\ inventory = [i \in ItemIds |-> InitQuantity]
    /\ parts = <<>>
    /\ machines \in [JobMachineIds -> [deleted : BOOLEAN,
                                        last_maintenance_date : {NullDate},
                                        next_maintenance_date : JobDateInputs]]
    /\ schedules = <<>>
    /\ served = 0
    /\ pc = [p \in Procs |-> "idle"]
    /\ req = [p \in Procs |-> NoRequest]
    /\ loc = [p \in Procs |-> NoLocals]
    /\ status = [p \in Procs |-> 0]
    /\ alone = [p \in Procs |-> FALSE]
    /\ start = [p \in Procs |-> NoStart]
    /\ \E w \in {<<>>} \cup {<<r>> : r \in JobWorkOrderInputs} :
           store = [k \in StoreKinds |-> IF k = "work_orders" THEN w ELSE <<>>]
    /\ users = <<>>
    /\ res = [p \in Procs |-> NoResponse]
    /\ ran = [p \in Procs |-> FALSE]

\* nextWeek.setDate(today.getDate() + 7)
NextWeek == SetDate(Today, GetDate(Today) + 7)

\* Machine.findAll({ where: { next_maintenance_date: { [Op.between]: [today,
\* nextWeek] } } }) on the paranoid model. The column holds a date and both
\* bounds are instants of the clock: a date equal to the clock's day is matched
\* only when the clock stands at that day's first instant.
MachinesDue(midnight) ==
    {m \in DOMAIN machines :
        /\ ~machines[m].deleted
        /\ machines[m].next_maintenance_date # NullDate
        /\ IF midnight THEN machines[m].next_maintenance_date >= Today
                       ELSE machines[m].next_maintenance_date > Today
        /\ machines[m].next_maintenance_date <= NextWeek}

\* The orders in which findAll, given no order clause, may return the rows.
RowOrders(S) ==
    {s \in [1..Cardinality(S) -> S] : \A i, j \in 1..Cardinality(S) : s[i] = s[j] => i = j}

\* WorkOrder.findOne({ where: { machine_id, status: { [Op.in]: ['pending',
\* 'in_progress'] } } }) on the paranoid model.
OpenWorkOrders(m) ==
    {k \in 1..Len(store["work_orders"]) :
        /\ ~store["work_orders"][k].deleted
        /\ store["work_orders"][k].machine_id = m
        /\ store["work_orders"][k].status \in {"pending", "in_progress"}}

\* The loop moves to its next machine, or the job returns.
JobAdvance(p) ==
    IF Len(loc[p].machines) > 1
    THEN AwaitHolding(p, NoResponse, "job_findWorkOrder",
                      [loc[p] EXCEPT !.machines = Tail(@)])
    ELSE Over(p, NoResponse)

\* The queue hands a run to the processor, one run at a time; the run takes
\* the clock and finds the machines due. A later run of the same day finds the
\* clock past the day's first instant.
JobFindMachines(p) ==
    /\ CanBegin(p)
    /\ \A q \in Procs \ {p} : pc[q] \in {"idle", "done"}
    /\ \E midnight \in (IF served = 0 THEN BOOLEAN ELSE {FALSE}) :
        /\ req' = [req EXCEPT ![p] = [kind |-> "job", run |-> served + 1,
                                      midnight |-> midnight]]
        /\ IF MachinesDue(midnight) = {}
           THEN Over(p, NoResponse)
           ELSE \E s \in RowOrders(MachinesDue(midnight)) :
                    AwaitHolding(p, NoResponse, "job_findWorkOrder", [machines |-> s])
    /\ Began(p)
    /\ UNCHANGED <<ledger, maintenance, store, users, ran>>

JobFindWorkOrderNoCheck(p) ==
    /\ pc[p] = "job_findWorkOrder"
    /\ AwaitHolding(p, NoResponse, "job_create", loc[p])
    /\ Interfered(p)
    /\ UNCHANGED <<ledger, maintenance, store, users, req, ran>>

JobFindWorkOrder(p) ==
    /\ pc[p] = "job_findWorkOrder"
    /\ IF OpenWorkOrders(Head(loc[p].machines)) # {}
       THEN JobAdvance(p)
       ELSE AwaitHolding(p, NoResponse, "job_create", loc[p])
    /\ Interfered(p)
    /\ UNCHANGED <<ledger, maintenance, store, users, req, ran>>

JobCreateWorkOrder(p) ==
    /\ pc[p] = "job_create"
    /\ store' = [store EXCEPT !["work_orders"] =
                    Append(@, [status |-> "pending", machine_id |-> Head(loc[p].machines),
                               title |-> JobTitle, deleted |-> FALSE])]
    /\ JobAdvance(p)
    /\ Interfered(p)
    /\ UNCHANGED <<ledger, maintenance, users, req, ran>>

NextJob ==
    \E p \in Procs :
        \/ JobFindMachines(p)
        \/ JobFindWorkOrder(p)
        \/ JobCreateWorkOrder(p)
        \/ Finish(p)

SpecJob == InitJob /\ [][NextJob]_vars

\* The open work orders of machine m that the job created.
OpenJobWorkOrders(m) ==
    {k \in OpenWorkOrders(m) : store["work_orders"][k].title = JobTitle}

\* C29: a step that adds a work order is a step of the job's first run; the
\* work order is pending and is for a machine that is not deleted, whose
\* next_maintenance_date lies between today and seven days from today, and
\* that had no pending or in_progress work order; and no machine ever has two
\* open work orders created by the job.
JobCreatesOncePerMachine ==
    /\ [][Len(store'["work_orders"]) > Len(store["work_orders"]) =>
              \E p \in Procs :
                  LET n == Len(store'["work_orders"])
                      w == store'["work_orders"][n]
                  IN  /\ req[p].kind = "job" /\ pc[p] = "job_create"
                      /\ req[p].run = 1
                      /\ n = Len(store["work_orders"]) + 1
                      /\ w.status = "pending" /\ ~w.deleted
                      /\ w.machine_id \in DOMAIN machines
                      /\ ~machines[w.machine_id].deleted
                      /\ machines[w.machine_id].next_maintenance_date >= Today
                      /\ machines[w.machine_id].next_maintenance_date <= Today + 7
                      /\ OpenWorkOrders(w.machine_id) = {}]_vars
    /\ [](\A m \in DOMAIN machines : Cardinality(OpenJobWorkOrders(m)) <= 1)

\* C29 witness: the first run created a pending work order for a machine due in
\* seven days, and a second run has returned without creating another.
JobCreatesOncePerMachineWitness ==
    \E p \in Procs, m \in DOMAIN machines :
        /\ pc[p] = "done" /\ req[p].kind = "job" /\ req[p].run = 2
        /\ machines[m].next_maintenance_date = Today + 7
        /\ Cardinality(OpenJobWorkOrders(m)) = 1
====
